---- MODULE Spec2Model ----
(***************************************************************************)
(* Model of the chemical-engineering unit converter                        *)
(* (src/unit-conversion/che_unit_converter/che_unit_converter.py and the   *)
(* singleton wrapper in __init__.py).                                      *)
(*                                                                         *)
(* Strings are sequences of one-character strings, so that the code's      *)
(* startswith / slicing / split / isdigit are computed, not assumed.       *)
(* Python floats are modelled as exact rationals: a number is              *)
(*   (n / d) * PRODUCT p^e[p]  over the primes p of Primes,                *)
(* kept in a canonical form so that equality of numbers is equality of     *)
(* records.  Rounding, overflow and underflow of IEEE doubles are not      *)
(* modelled.                                                               *)
(***************************************************************************)
EXTENDS Integers, Sequences, FiniteSets, TLC

(***************************************************************************)
(* Exact arithmetic standing for Python float arithmetic                   *)
(***************************************************************************)

\* The primes that occur in the decimal literals of the unit tables.
PrimeSeq == <<2, 3, 5, 7, 11, 17, 31, 59, 71, 89, 97, 107, 127, 193, 523,
              743, 1777, 6073, 7457, 12211>>

Primes == {PrimeSeq[i] : i \in 1..Len(PrimeSeq)}

Abs(x) == IF x < 0 THEN -x ELSE x

RECURSIVE Gcd(_, _)
Gcd(a, b) == IF b = 0 THEN a ELSE Gcd(b, a % b)

\* multiplicity of the prime p in the positive integer x
RECURSIVE Multiplicity(_, _)
Multiplicity(x, p) == IF x % p = 0 THEN 1 + Multiplicity(x \div p, p) ELSE 0

RECURSIVE IntPow(_, _)
IntPow(b, k) == IF k = 0 THEN 1 ELSE b * IntPow(b, k - 1)

\* x with every factor from PrimeSeq[i..] removed
RECURSIVE StripPrimes(_, _)
StripPrimes(x, i) ==
    IF i > Len(PrimeSeq) THEN x
    ELSE StripPrimes(x \div IntPow(PrimeSeq[i], Multiplicity(x, PrimeSeq[i])), i + 1)

\* exponent maps hold the primes with a non-zero exponent only
ExpOf(e, p) == IF p \in DOMAIN e THEN e[p] ELSE 0

Sparse(e) == [p \in {q \in DOMAIN e : e[q] # 0} |-> e[p]]

Zero == [n |-> 0, d |-> 1, e |-> <<>>]

One == [n |-> 1, d |-> 1, e |-> <<>>]

\* sign * (rn / rd) * PRODUCT p^e[p] with rn / rd reduced by g = gcd(rn, rd)
Lowest(sign, rn, rd, g, e) == [n |-> sign * (rn \div g), d |-> rd \div g, e |-> e]

Coprime(sign, rn, rd, e) == Lowest(sign, rn, rd, Gcd(rn, rd), e)

\* canonical form of (n / d) * PRODUCT p^e[p], d > 0
Norm(n, d, e) ==
    IF n = 0 THEN Zero
    ELSE IF Abs(n) = 1 /\ d = 1 THEN [n |-> n, d |-> 1, e |-> Sparse(e)]
    ELSE Coprime(IF n < 0 THEN -1 ELSE 1,
                 StripPrimes(Abs(n), 1),
                 StripPrimes(d, 1),
                 Sparse([p \in Primes |->
                     ExpOf(e, p) + Multiplicity(Abs(n), p) - Multiplicity(d, p)]))

\* the integer i
Num(i) == Norm(i, 1, <<>>)

\* the decimal literal m * 10^k, e.g. 0.3048 is Dec(3048, -4), 1e24 is Dec(1, 24)
Dec(m, k) == Norm(m, 1, [p \in {2, 5} |-> k])

Mul(a, b) ==
    Norm(a.n * b.n, a.d * b.d,
         [p \in (DOMAIN a.e) \cup (DOMAIN b.e) |-> ExpOf(a.e, p) + ExpOf(b.e, p)])

\* a / b for b # 0
Div(a, b) ==
    Norm(a.n * b.d * (IF b.n < 0 THEN -1 ELSE 1), a.d * Abs(b.n),
         [p \in (DOMAIN a.e) \cup (DOMAIN b.e) |-> ExpOf(a.e, p) - ExpOf(b.e, p)])

\* a ** k for an integer k >= 0
Pow(a, k) ==
    IF k = 0 THEN One
    ELSE Norm(IntPow(a.n, k), IntPow(a.d, k), [p \in DOMAIN a.e |-> k * a.e[p]])

\* the product of p^e[p] over the primes PrimeSeq[i..] with e[p] > 0
RECURSIVE ExpandPos(_, _)
ExpandPos(e, i) ==
    IF i > Len(PrimeSeq) THEN 1
    ELSE (IF ExpOf(e, PrimeSeq[i]) > 0 THEN IntPow(PrimeSeq[i], e[PrimeSeq[i]]) ELSE 1)
         * ExpandPos(e, i + 1)

\* numerator and denominator of a as plain integers
NumOf(a) == a.n * ExpandPos(a.e, 1)
DenOf(a) == a.d * ExpandPos([p \in DOMAIN a.e |-> -a.e[p]], 1)

Add(a, b) ==
    Norm(NumOf(a) * DenOf(b) + NumOf(b) * DenOf(a), DenOf(a) * DenOf(b), <<>>)

Neg(a) == [a EXCEPT !.n = -a.n]

Sub(a, b) == Add(a, Neg(b))

(***************************************************************************)
(* Python str operations on character sequences                            *)
(***************************************************************************)

Digits == <<"0", "1", "2", "3", "4", "5", "6", "7", "8", "9">>

\* str.isdigit for one ASCII character
IsDigit(c) == \E i \in 1..Len(Digits) : Digits[i] = c

DigitVal(c) == (CHOOSE i \in 1..Len(Digits) : Digits[i] = c) - 1

\* int(s) for a non-empty run of decimal digits
RECURSIVE ParseInt(_)
ParseInt(s) ==
    IF s = <<>> THEN 0
    ELSE 10 * ParseInt(SubSeq(s, 1, Len(s) - 1)) + DigitVal(s[Len(s)])

\* c in s
Contains(s, c) == \E i \in 1..Len(s) : s[i] = c

\* s.startswith(p)
StartsWith(s, p) == Len(p) <= Len(s) /\ SubSeq(s, 1, Len(p)) = p

\* s.endswith(p)
EndsWith(s, p) == Len(p) <= Len(s) /\ SubSeq(s, Len(s) - Len(p) + 1, Len(s)) = p

\* s[k:] with k counted from 0
DropFirst(s, k) == SubSeq(s, k + 1, Len(s))

\* s.replace(' ', '')
RemoveSpaces(s) == SelectSeq(s, LAMBDA c : c # " ")

\* s.split(sep, 1): the parts before and after the first sep
SplitFirst(s, sep) ==
    IF ~Contains(s, sep) THEN <<s>>
    ELSE LET i == CHOOSE j \in 1..Len(s) :
                      s[j] = sep /\ \A k \in 1..(j - 1) : s[k] # sep
         IN  <<SubSeq(s, 1, i - 1), SubSeq(s, i + 1, Len(s))>>

\* s.split(sep)
RECURSIVE Split(_, _)
Split(s, sep) ==
    IF ~Contains(s, sep) THEN <<s>>
    ELSE LET p == SplitFirst(s, sep)
         IN  <<p[1]>> \o Split(p[2], sep)

(***************************************************************************)
(* Class-level tables of ChemEngUnitConverter                              *)
(***************************************************************************)

\* the seven base axes; "Theta" stands for the source's temperature axis
DIMENSIONS == <<"L", "M", "T", "Theta", "N", "I", "J">>

\* the float that the decimal literal m * 10^k, written <<m, k>>, denotes
Float(literal) == Dec(literal[1], literal[2])

\* a table of unit: (factor, dimensions) given by its literals
UnitTable(literals) ==
    [unit \in DOMAIN literals |->
        [factor |-> Float(literals[unit].factor),
         dimensions |-> literals[unit].dimensions]]

\* variant: the prefixes in the reverse of the source order
PrefixTableReversed(literals) ==
    [i \in 1..Len(literals) |->
        [prefix |-> literals[Len(literals) + 1 - i].prefix,
         factor |-> Float(literals[Len(literals) + 1 - i].factor)]]

\* a table of prefix: multiplier given by its literals, in source order
PrefixTable(literals) ==
    [i \in 1..Len(literals) |->
        [prefix |-> literals[i].prefix, factor |-> Float(literals[i].factor)]]

BASE_UNITS == UnitTable(
    (<<"m">> :> [factor |-> <<1, 0>>, dimensions |-> [L |-> 1]]) @@
    (<<"f", "t">> :> [factor |-> <<3048, -4>>, dimensions |-> [L |-> 1]]) @@
    (<<"i", "n">> :> [factor |-> <<254, -4>>, dimensions |-> [L |-> 1]]) @@
    (<<"g">> :> [factor |-> <<1, -3>>, dimensions |-> [M |-> 1]]) @@
    (<<"k", "g">> :> [factor |-> <<1, 0>>, dimensions |-> [M |-> 1]]) @@
    (<<"l", "b">> :> [factor |-> <<453592, -6>>, dimensions |-> [M |-> 1]]) @@
    (<<"l", "b", "m">> :> [factor |-> <<453592, -6>>, dimensions |-> [M |-> 1]]) @@
    (<<"s">> :> [factor |-> <<1, 0>>, dimensions |-> [T |-> 1]]) @@
    (<<"m", "i", "n">> :> [factor |-> <<6, 1>>, dimensions |-> [T |-> 1]]) @@
    (<<"h", "r">> :> [factor |-> <<36, 2>>, dimensions |-> [T |-> 1]]) @@
    (<<"h">> :> [factor |-> <<36, 2>>, dimensions |-> [T |-> 1]]) @@
    (<<"K">> :> [factor |-> <<1, 0>>, dimensions |-> [Theta |-> 1]]) @@
    (<<"A">> :> [factor |-> <<1, 0>>, dimensions |-> [I |-> 1]]) @@
    (<<"m", "o", "l">> :> [factor |-> <<1, 0>>, dimensions |-> [N |-> 1]]) @@
    (<<"g", "m", "o", "l">> :> [factor |-> <<1, 0>>, dimensions |-> [N |-> 1]]) @@
    (<<"l", "b", "m", "o", "l">> :> [factor |-> <<45359237, -5>>, dimensions |-> [N |-> 1]]) @@
    (<<"c", "d">> :> [factor |-> <<1, 0>>, dimensions |-> [J |-> 1]]))

DERIVED_UNITS == UnitTable(
    (<<"N">> :> [factor |-> <<1, 0>>, dimensions |-> [M |-> 1, L |-> 1, T |-> -2]]) @@
    (<<"l", "b", "f">> :> [factor |-> <<444822, -5>>, dimensions |-> [M |-> 1, L |-> 1, T |-> -2]]) @@
    (<<"P", "a">> :> [factor |-> <<1, 0>>, dimensions |-> [M |-> 1, L |-> -1, T |-> -2]]) @@
    (<<"b", "a", "r">> :> [factor |-> <<1, 5>>, dimensions |-> [M |-> 1, L |-> -1, T |-> -2]]) @@
    (<<"a", "t", "m">> :> [factor |-> <<101325, 0>>, dimensions |-> [M |-> 1, L |-> -1, T |-> -2]]) @@
    (<<"p", "s", "i">> :> [factor |-> <<689476, -2>>, dimensions |-> [M |-> 1, L |-> -1, T |-> -2]]) @@
    (<<"t", "o", "r", "r">> :> [factor |-> <<133322, -3>>, dimensions |-> [M |-> 1, L |-> -1, T |-> -2]]) @@
    (<<"m", "m", "H", "g">> :> [factor |-> <<133322, -3>>, dimensions |-> [M |-> 1, L |-> -1, T |-> -2]]) @@
    (<<"J">> :> [factor |-> <<1, 0>>, dimensions |-> [M |-> 1, L |-> 2, T |-> -2]]) @@
    (<<"c", "a", "l">> :> [factor |-> <<4184, -3>>, dimensions |-> [M |-> 1, L |-> 2, T |-> -2]]) @@
    (<<"B", "t", "u">> :> [factor |-> <<105506, -2>>, dimensions |-> [M |-> 1, L |-> 2, T |-> -2]]) @@
    (<<"k", "W", "h">> :> [factor |-> <<36, 5>>, dimensions |-> [M |-> 1, L |-> 2, T |-> -2]]) @@
    (<<"W">> :> [factor |-> <<1, 0>>, dimensions |-> [M |-> 1, L |-> 2, T |-> -3]]) @@
    (<<"h", "p">> :> [factor |-> <<7457, -1>>, dimensions |-> [M |-> 1, L |-> 2, T |-> -3]]) @@
    (<<"L">> :> [factor |-> <<1, -3>>, dimensions |-> [L |-> 3]]) @@
    (<<"g", "a", "l">> :> [factor |-> <<378541, -8>>, dimensions |-> [L |-> 3]]) @@
    (<<"c", "P">> :> [factor |-> <<1, -3>>, dimensions |-> [M |-> 1, L |-> -1, T |-> -1]]) @@
    (<<"P">> :> [factor |-> <<1, -1>>, dimensions |-> [M |-> 1, L |-> -1, T |-> -1]]))

\* an ordered table: the resolver tries the prefixes in this order
PREFIXES == PrefixTable(
    <<[prefix |-> <<"Y">>, factor |-> <<1, 24>>],
      [prefix |-> <<"Z">>, factor |-> <<1, 21>>],
      [prefix |-> <<"E">>, factor |-> <<1, 18>>],
      [prefix |-> <<"P">>, factor |-> <<1, 15>>],
      [prefix |-> <<"T">>, factor |-> <<1, 12>>],
      [prefix |-> <<"G">>, factor |-> <<1, 9>>],
      [prefix |-> <<"M">>, factor |-> <<1, 6>>],
      [prefix |-> <<"k">>, factor |-> <<1, 3>>],
      [prefix |-> <<"h">>, factor |-> <<1, 2>>],
      [prefix |-> <<"d", "a">>, factor |-> <<1, 1>>],
      [prefix |-> <<"d">>, factor |-> <<1, -1>>],
      [prefix |-> <<"c">>, factor |-> <<1, -2>>],
      [prefix |-> <<"m">>, factor |-> <<1, -3>>],
      [prefix |-> <<"m", "u">>, factor |-> <<1, -6>>],
      [prefix |-> <<"u">>, factor |-> <<1, -6>>],
      [prefix |-> <<"n">>, factor |-> <<1, -9>>],
      [prefix |-> <<"p">>, factor |-> <<1, -12>>],
      [prefix |-> <<"f">>, factor |-> <<1, -15>>],
      [prefix |-> <<"a">>, factor |-> <<1, -18>>],
      [prefix |-> <<"z">>, factor |-> <<1, -21>>],
      [prefix |-> <<"y">>, factor |-> <<1, -24>>]>>)

TEMPERATURE_UNITS ==
    {<<"K">>, <<"d", "e", "g", "C">>, <<"d", "e", "g", "F">>, <<"d", "e", "g", "R">>}

\* the list of prefixable symbols in _build_unit_dictionary
base_si_units ==
    <<<<"m">>, <<"g">>, <<"s">>, <<"A">>, <<"m", "o", "l">>, <<"g", "m", "o", "l">>, <<"c", "d">>, <<"P", "a">>, <<"J">>, <<"W">>, <<"N">>, <<"L">>>>

(***************************************************************************)
(* Python dict operations on dimension maps (partial maps axis -> exponent) *)
(***************************************************************************)

\* d.get(k, 0)
Get(d, k) == IF k \in DOMAIN d THEN d[k] ELSE 0

\* for dim, exp in dims.items(): acc[dim] = acc.get(dim, 0) + exp
AddDims(acc, dims) ==
    [k \in (DOMAIN acc) \cup (DOMAIN dims) |->
        IF k \in DOMAIN dims THEN Get(acc, k) + dims[k] ELSE acc[k]]

\* final = num.copy(); for dim, exp in den.items(): final[dim] = final.get(dim, 0) - exp
SubDims(num, den) ==
    [k \in (DOMAIN num) \cup (DOMAIN den) |->
        IF k \in DOMAIN den THEN Get(num, k) - den[k] ELSE num[k]]

(***************************************************************************)
(* Construction of the converter instance                                  *)
(***************************************************************************)

\* variant: the prefix mu is skipped as well
SkipCombinationMicro(base_unit, prefix) ==
    \/ base_unit = <<"k", "g">> /\ prefix = <<"k">>
    \/ base_unit = <<"g", "m", "o", "l">> /\ prefix = <<"k">>
    \/ prefix = <<"m", "u">>

\* the "continue" conditions at the top of the nested loop body
SkipCombination(base_unit, prefix) ==
    \/ base_unit = <<"k", "g">> /\ prefix = <<"k">>
    \/ base_unit = <<"g", "m", "o", "l">> /\ prefix = <<"k">>

\* the table the loop body reads base_unit from; <<>> when it is in neither,
\* which is the loop's final "else: continue"
SourceTable(base_unit) ==
    IF base_unit \in DOMAIN BASE_UNITS THEN BASE_UNITS
    ELSE IF base_unit \in DOMAIN DERIVED_UNITS THEN DERIVED_UNITS
    ELSE <<>>

\* variant: the prefixed unit gets the multiplier alone
PrefixedEntryMultiplierOnly(entry, prefix) ==
    [factor |-> prefix.factor, dimensions |-> entry.dimensions]

\* unit_dict[prefixed_unit] = base_factor * factor; dimension_dict[...] = dims
PrefixedEntry(entry, prefix) ==
    [factor |-> Mul(entry.factor, prefix.factor), dimensions |-> entry.dimensions]

\* the entries one pass of "for prefix, factor in self.PREFIXES.items()" writes
\* for base_unit (the prefixes are pairwise distinct, so are the keys written)
PrefixedEntries(base_unit, tbl, prefixes) ==
    [prefixed_unit \in
        {prefixes[j].prefix \o base_unit :
            j \in {k \in 1..Len(prefixes) :
                      /\ ~SkipCombination(base_unit, prefixes[k].prefix)
                      /\ base_unit \in DOMAIN tbl}} |->
        PrefixedEntry(tbl[base_unit],
                      prefixes[CHOOSE j \in 1..Len(prefixes) :
                                   prefixes[j].prefix \o base_unit = prefixed_unit])]

\* the tables in the order in which _build_unit_dictionary writes their
\* entries: the base units, the derived units, then the prefixed units of
\* each symbol of base_si_units in turn
WriteOrder ==
    <<BASE_UNITS, DERIVED_UNITS>>
        \o [i \in 1..Len(base_si_units) |->
               PrefixedEntries(base_si_units[i], SourceTable(base_si_units[i]), PREFIXES)]

\* the position in order of the last table that has the key unit
LastIndex(order, unit) ==
    CHOOSE i \in 1..Len(order) :
        /\ unit \in DOMAIN order[i]
        /\ \A k \in (i + 1)..Len(order) : unit \notin DOMAIN order[k]

\* the entry that is written last under the key unit
LastWritten(order, unit) == order[LastIndex(order, unit)][unit]

WrittenUnits(order) == UNION {DOMAIN order[i] : i \in 1..Len(order)}

\* every assignment writes self.unit_dict[unit] and self.dimension_dict[unit];
\* a later assignment to a key replaces an earlier one
WriteAll(self, order) ==
    [unit_dict |->
        [unit \in WrittenUnits(order) |-> LastWritten(order, unit).factor]
            @@ self.unit_dict,
     dimension_dict |->
        [unit \in WrittenUnits(order) |-> LastWritten(order, unit).dimensions]
            @@ self.dimension_dict]

_build_unit_dictionary(self) == WriteAll(self, WriteOrder)

\* ChemEngUnitConverter(): __init__
NewConverter ==
    _build_unit_dictionary([unit_dict |-> <<>>, dimension_dict |-> <<>>])

(***************************************************************************)
(* Outcomes of a call: a returned value or the raised error                *)
(***************************************************************************)

Ok(v) == [kind |-> "ok", value |-> v]

\* raise ValueError(f"Unknown unit: {unit}")
UnknownUnit(unit) == [kind |-> "UnknownUnit", unit |-> unit]

\* raise ValueError(f"Unknown temperature unit: {unit}")
UnknownTemperatureUnit(unit) == [kind |-> "UnknownTemperatureUnit", unit |-> unit]

\* raise ValueError(f"Incompatible dimensions: ...")
IncompatibleDimensions(from_unit, from_dims, to_unit, to_dims) ==
    [kind |-> "IncompatibleDimensions", from_unit |-> from_unit,
     from_dims |-> from_dims, to_unit |-> to_unit, to_dims |-> to_dims]

(***************************************************************************)
(* Unit-factor resolver                                                    *)
(***************************************************************************)

Min(S) == CHOOSE x \in S : \A y \in S : x <= y

MinOrZero(S) == IF S = {} THEN 0 ELSE Min(S)

\* variant: the remainder has to be a symbol of the base or derived tables
FirstPrefixUnprefixed(dict, unit, prefixes) ==
    MinOrZero({i \in 1..Len(prefixes) :
                  /\ StartsWith(unit, prefixes[i].prefix)
                  /\ DropFirst(unit, Len(prefixes[i].prefix))
                         \in (DOMAIN BASE_UNITS) \cup (DOMAIN DERIVED_UNITS)})

\* the position of the first prefix, in table order, that splits unit into
\* prefix + key of dict; 0 when the loop ends without one
FirstPrefix(dict, unit, prefixes) ==
    MinOrZero({i \in 1..Len(prefixes) :
                  /\ StartsWith(unit, prefixes[i].prefix)
                  /\ DropFirst(unit, Len(prefixes[i].prefix)) \in DOMAIN dict})

\* the prefix loop and the 'kg' special case of _get_unit_dimensions
DimensionsByPrefix(self, unit, i, prefixes) ==
    IF i # 0
    THEN Ok(self.dimension_dict[DropFirst(unit, Len(prefixes[i].prefix))])
    ELSE IF unit = <<"k", "g">> THEN Ok([M |-> 1])
    ELSE UnknownUnit(unit)

_get_unit_dimensions(self, unit) ==
    IF unit \in DOMAIN self.dimension_dict THEN Ok(self.dimension_dict[unit])
    ELSE DimensionsByPrefix(self, unit,
                            FirstPrefix(self.dimension_dict, unit, PREFIXES), PREFIXES)

\* the prefix loop and the 'kg' special case of _get_unit_factor
FactorByPrefix(self, unit, i, prefixes) ==
    IF i # 0
    THEN Ok(Mul(self.unit_dict[DropFirst(unit, Len(prefixes[i].prefix))],
                prefixes[i].factor))
    ELSE IF unit = <<"k", "g">> THEN Ok(One)
    ELSE UnknownUnit(unit)

\* variant: a prefix is stripped before the unit itself is looked up
_get_unit_factor_prefix_first(self, unit) ==
    IF FirstPrefix(self.unit_dict, unit, PREFIXES) # 0
    THEN FactorByPrefix(self, unit,
                        FirstPrefix(self.unit_dict, unit, PREFIXES), PREFIXES)
    ELSE IF unit \in DOMAIN self.unit_dict THEN Ok(self.unit_dict[unit])
    ELSE FactorByPrefix(self, unit, 0, PREFIXES)

_get_unit_factor(self, unit) ==
    IF unit \in DOMAIN self.unit_dict THEN Ok(self.unit_dict[unit])
    ELSE FactorByPrefix(self, unit,
                        FirstPrefix(self.unit_dict, unit, PREFIXES), PREFIXES)

\* the number of characters in front of the trailing run of digits
PowerStart(unit_str) ==
    CHOOSE i \in 0..Len(unit_str) :
        /\ \A j \in (i + 1)..Len(unit_str) : IsDigit(unit_str[j])
        /\ i = 0 \/ ~IsDigit(unit_str[i])

\* if unit_str[-1].isdigit()
HasPower(unit_str) == IsDigit(unit_str[Len(unit_str)])

\* power = int(unit_str[i:]), or 1 without a digit at the end
PowerOf(unit_str) ==
    IF HasPower(unit_str) THEN ParseInt(DropFirst(unit_str, PowerStart(unit_str)))
    ELSE 1

\* base_unit = unit_str[:i], or unit_str without a digit at the end
BaseUnitOf(unit_str) ==
    IF HasPower(unit_str) THEN SubSeq(unit_str, 1, PowerStart(unit_str))
    ELSE unit_str

\* variant: degF and degR scaled by 9/5
TemperatureScaleInverted(unit_str) ==
    IF unit_str = <<"K">> \/ unit_str = <<"d", "e", "g", "C">>
    THEN One
    ELSE Div(Num(9), Num(5))

\* the scale factor returned by the temperature branch
TemperatureScale(unit_str) ==
    IF unit_str = <<"K">> \/ unit_str = <<"d", "e", "g", "C">>
    THEN One
    ELSE Div(Num(5), Num(9))

\* variant: the power is applied to the factor and not to the dimensions
ApplyPowerFactorOnly(base_factor, base_dims, power) ==
    IF base_factor.kind # "ok" THEN base_factor
    ELSE IF base_dims.kind # "ok" THEN base_dims
    ELSE Ok([factor |-> Pow(base_factor.value, power),
             dims |-> base_dims.value])

\* factor = base_factor ** power; dims = {dim: exp * power ...}
ApplyPower(base_factor, base_dims, power) ==
    IF base_factor.kind # "ok" THEN base_factor
    ELSE IF base_dims.kind # "ok" THEN base_dims
    ELSE Ok([factor |-> Pow(base_factor.value, power),
             dims |-> [dim \in DOMAIN base_dims.value |->
                           base_dims.value[dim] * power]])

\* variant: an empty unit_str is an unknown unit
_parse_simple_unit_with_dims_strict(self, unit_str) ==
    IF unit_str = <<>> THEN UnknownUnit(unit_str)
    ELSE IF unit_str = <<"1">>
    THEN Ok([factor |-> One, dims |-> <<>>])
    ELSE IF /\ unit_str \in TEMPERATURE_UNITS
            /\ unit_str \in {<<"K">>, <<"d", "e", "g", "C">>,
                             <<"d", "e", "g", "F">>, <<"d", "e", "g", "R">>}
    THEN Ok([factor |-> TemperatureScale(unit_str), dims |-> [Theta |-> 1]])
    ELSE ApplyPower(_get_unit_factor(self, BaseUnitOf(unit_str)),
                    _get_unit_dimensions(self, BaseUnitOf(unit_str)),
                    PowerOf(unit_str))

_parse_simple_unit_with_dims(self, unit_str) ==
    IF unit_str = <<>> \/ unit_str = <<"1">>
    THEN Ok([factor |-> One, dims |-> <<>>])
    ELSE IF /\ unit_str \in TEMPERATURE_UNITS
            /\ unit_str \in {<<"K">>, <<"d", "e", "g", "C">>,
                             <<"d", "e", "g", "F">>, <<"d", "e", "g", "R">>}
    THEN Ok([factor |-> TemperatureScale(unit_str), dims |-> [Theta |-> 1]])
    ELSE ApplyPower(_get_unit_factor(self, BaseUnitOf(unit_str)),
                    _get_unit_dimensions(self, BaseUnitOf(unit_str)),
                    PowerOf(unit_str))

(***************************************************************************)
(* Expression parser                                                       *)
(***************************************************************************)

\* group[1:-1] for a group in parentheses, the group itself otherwise
StripParens(group) ==
    IF StartsWith(group, <<"(">>) /\ EndsWith(group, <<")">>)
    THEN SubSeq(group, 2, Len(group) - 1)
    ELSE group

\* the branch for an expression with "/" and both parentheses
SplitGroups(parts) ==
    [numerator |-> <<StripParens(parts[1])>>,
     denominator |-> <<StripParens(parts[2])>>]

\* variant: read left to right, only the token right after the "/" divides
SplitPlainLeftToRight(parts) ==
    [numerator |-> <<parts[1]>> \o Tail(Split(parts[2], ".")),
     denominator |-> <<Head(Split(parts[2], "."))>> \o Tail(Tail(parts))]

\* variant: only the part after the first "/" is the denominator
SplitPlainFirstPart(parts) ==
    [numerator |-> <<parts[1]>>,
     denominator |-> IF Len(parts) > 1 THEN <<parts[2]>> ELSE <<<<"1">>>>]

\* the branch for an expression with "/" and no pair of parentheses
SplitPlain(parts) ==
    [numerator |-> <<parts[1]>>,
     denominator |-> IF Len(parts) > 1 THEN Tail(parts) ELSE <<<<"1">>>>]

\* _split_unit_expression after unit_expr.replace(' ', '')
SplitExpr(expr) ==
    IF ~Contains(expr, "/")
    THEN [numerator |-> <<expr>>, denominator |-> <<<<"1">>>>]
    ELSE IF Contains(expr, "(") /\ Contains(expr, ")")
    THEN SplitGroups(SplitFirst(expr, "/"))
    ELSE SplitPlain(Split(expr, "/"))

_split_unit_expression(unit_expr) == SplitExpr(RemoveSpaces(unit_expr))

RECURSIVE ParseSubparts(_, _, _, _)

\* variant: a subpart that does not resolve is skipped
SubpartStepLenient(self, rest, subfactor, subdims, r) ==
    IF r.kind # "ok" THEN ParseSubparts(self, rest, subfactor, subdims)
    ELSE ParseSubparts(self, rest,
                       Mul(subfactor, r.value.factor),
                       AddDims(subdims, r.value.dims))

\* the body of "for subpart in subparts" once the subpart is parsed to r
SubpartStep(self, rest, subfactor, subdims, r) ==
    IF r.kind # "ok" THEN r
    ELSE ParseSubparts(self, rest,
                       Mul(subfactor, r.value.factor),
                       AddDims(subdims, r.value.dims))

\* "for subpart in subparts": accumulates subfactor and subdims
ParseSubparts(self, subparts, subfactor, subdims) ==
    IF subparts = <<>> THEN Ok([factor |-> subfactor, dims |-> subdims])
    ELSE SubpartStep(self, Tail(subparts), subfactor, subdims,
                     _parse_simple_unit_with_dims(self, Head(subparts)))

\* one part of a side: a "."-product of simple units or one simple unit
ParsePart(self, part) ==
    IF Contains(part, ".")
    THEN ParseSubparts(self, Split(part, "."), One, <<>>)
    ELSE _parse_simple_unit_with_dims(self, part)

RECURSIVE ParseParts(_, _, _, _)

\* the body of "for part in parts[...]" once the part is parsed to r
PartStep(self, rest, factor, dims, r) ==
    IF r.kind # "ok" THEN r
    ELSE ParseParts(self, rest,
                    Mul(factor, r.value.factor),
                    AddDims(dims, r.value.dims))

\* "for part in parts[...]": accumulates the factor and dims of one side
ParseParts(self, parts, factor, dims) ==
    IF parts = <<>> THEN Ok([factor |-> factor, dims |-> dims])
    ELSE PartStep(self, Tail(parts), factor, dims, ParsePart(self, Head(parts)))

\* variant: the denominator factor multiplied in instead of divided out
CombineProduct(num, den) ==
    Ok([factor |-> Mul(num.factor, den.factor),
        dims |-> SubDims(num.dims, den.dims)])

\* numerator_factor / denominator_factor and the final dimensions
Combine(num, den) ==
    Ok([factor |-> Div(num.factor, den.factor),
        dims |-> SubDims(num.dims, den.dims)])

\* the numerator loop runs first: its error is the one raised
CombineSides(num, den) ==
    IF num.kind # "ok" THEN num
    ELSE IF den.kind # "ok" THEN den
    ELSE Combine(num.value, den.value)

ParseSides(self, parts) ==
    CombineSides(ParseParts(self, parts.numerator, One, <<>>),
                 ParseParts(self, parts.denominator, One, <<>>))

_parse_unit_expression_with_dims(self, unit_expr) ==
    IF \/ unit_expr = <<>>
       \/ unit_expr = <<"1">>
       \/ unit_expr = <<"d", "i", "m", "e", "n", "s", "i", "o", "n", "l", "e", "s", "s">>
    THEN Ok([factor |-> One, dims |-> <<>>])
    ELSE IF ~Contains(unit_expr, "/") /\ ~Contains(unit_expr, ".")
    THEN _parse_simple_unit_with_dims(self, unit_expr)
    ELSE ParseSides(self, _split_unit_expression(unit_expr))

(***************************************************************************)
(* Converter                                                               *)
(***************************************************************************)

\* variant: the two dicts compared as they are, without the 0 default
_check_dimensional_compatibility_exact(from_dims, to_dims) ==
    from_dims = to_dims

_check_dimensional_compatibility(from_dims, to_dims) ==
    \A dim \in (DOMAIN from_dims) \cup (DOMAIN to_dims) :
        Get(from_dims, dim) = Get(to_dims, dim)

\* variant: degF scaled without taking the 32 of its zero point off
ToKelvinShifted(value, from_unit) ==
    IF from_unit = <<"K">> THEN Ok(value)
    ELSE IF from_unit = <<"d", "e", "g", "C">> THEN Ok(Add(value, Dec(27315, -2)))
    ELSE IF from_unit = <<"d", "e", "g", "F">>
         THEN Ok(Add(Div(Mul(value, Num(5)), Num(9)), Dec(27315, -2)))
    ELSE IF from_unit = <<"d", "e", "g", "R">> THEN Ok(Div(Mul(value, Num(5)), Num(9)))
    ELSE UnknownTemperatureUnit(from_unit)

\* variant: the first if-chain without its degR branch
ToKelvinNoRankine(value, from_unit) ==
    IF from_unit = <<"K">> THEN Ok(value)
    ELSE IF from_unit = <<"d", "e", "g", "C">> THEN Ok(Add(value, Dec(27315, -2)))
    ELSE IF from_unit = <<"d", "e", "g", "F">>
         THEN Ok(Add(Div(Mul(Sub(value, Num(32)), Num(5)), Num(9)), Dec(27315, -2)))
    ELSE UnknownTemperatureUnit(from_unit)

\* the first if-chain of _convert_temperature: the value in kelvin
ToKelvin(value, from_unit) ==
    IF from_unit = <<"K">> THEN Ok(value)
    ELSE IF from_unit = <<"d", "e", "g", "C">> THEN Ok(Add(value, Dec(27315, -2)))
    ELSE IF from_unit = <<"d", "e", "g", "F">>
         THEN Ok(Add(Div(Mul(Sub(value, Num(32)), Num(5)), Num(9)), Dec(27315, -2)))
    ELSE IF from_unit = <<"d", "e", "g", "R">> THEN Ok(Div(Mul(value, Num(5)), Num(9)))
    ELSE UnknownTemperatureUnit(from_unit)

\* variant: the degR branch multiplies by 5/9 as the first chain does
FromKelvinRankineSwapped(temp_k, to_unit) ==
    IF to_unit = <<"K">> THEN Ok(temp_k)
    ELSE IF to_unit = <<"d", "e", "g", "C">> THEN Ok(Sub(temp_k, Dec(27315, -2)))
    ELSE IF to_unit = <<"d", "e", "g", "F">>
         THEN Ok(Add(Div(Mul(Sub(temp_k, Dec(27315, -2)), Num(9)), Num(5)), Num(32)))
    ELSE IF to_unit = <<"d", "e", "g", "R">> THEN Ok(Div(Mul(temp_k, Num(5)), Num(9)))
    ELSE UnknownTemperatureUnit(to_unit)

\* the second if-chain of _convert_temperature
FromKelvin(temp_k, to_unit) ==
    IF to_unit = <<"K">> THEN Ok(temp_k)
    ELSE IF to_unit = <<"d", "e", "g", "C">> THEN Ok(Sub(temp_k, Dec(27315, -2)))
    ELSE IF to_unit = <<"d", "e", "g", "F">>
         THEN Ok(Add(Div(Mul(Sub(temp_k, Dec(27315, -2)), Num(9)), Num(5)), Num(32)))
    ELSE IF to_unit = <<"d", "e", "g", "R">> THEN Ok(Div(Mul(temp_k, Num(9)), Num(5)))
    ELSE UnknownTemperatureUnit(to_unit)

\* an unknown source unit raises before the second if-chain is reached
ThenFromKelvin(temp_k, to_unit) ==
    IF temp_k.kind # "ok" THEN temp_k ELSE FromKelvin(temp_k.value, to_unit)

_convert_temperature(value, from_unit, to_unit) ==
    ThenFromKelvin(ToKelvin(value, from_unit), to_unit)

\* variant: the target factor multiplied in instead of divided out
ScaleValueProduct(value, from_factor, to_factor) ==
    Mul(value, Mul(from_factor, to_factor))

\* return value * (from_factor / to_factor)
ScaleValue(value, from_factor, to_factor) ==
    Mul(value, Div(from_factor, to_factor))

\* convert after both expressions are parsed, to f and t
ConvertParsed(value, from_unit, to_unit, f, t) ==
    IF f.kind # "ok" THEN f
    ELSE IF t.kind # "ok" THEN t
    ELSE IF ~_check_dimensional_compatibility(f.value.dims, t.value.dims)
         THEN IncompatibleDimensions(from_unit, f.value.dims, to_unit, t.value.dims)
    ELSE Ok(ScaleValue(value, f.value.factor, t.value.factor))

convert(self, value, from_unit, to_unit) ==
    IF from_unit \in TEMPERATURE_UNITS /\ to_unit \in TEMPERATURE_UNITS
    THEN _convert_temperature(value, from_unit, to_unit)
    ELSE ConvertParsed(value, from_unit, to_unit,
                       _parse_unit_expression_with_dims(self, from_unit),
                       _parse_unit_expression_with_dims(self, to_unit))

\* variant: the parsed source expression is stored in the dictionaries
SelfAfterConvertCaching(self, from_unit, to_unit) ==
    IF _parse_unit_expression_with_dims(self, from_unit).kind = "ok"
    THEN [unit_dict |->
              (from_unit :> _parse_unit_expression_with_dims(self, from_unit).value.factor)
                  @@ self.unit_dict,
          dimension_dict |->
              (from_unit :> _parse_unit_expression_with_dims(self, from_unit).value.dims)
                  @@ self.dimension_dict]
    ELSE self

\* the instance after a call of convert: no statement in convert or in the
\* methods it calls assigns to self.unit_dict or self.dimension_dict
SelfAfterConvert(self, from_unit, to_unit) == self

(***************************************************************************)
(* The callers: calls of the module-level convert on the shared singleton  *)
(***************************************************************************)

\* largest power suffix of the generated expressions m0, m1, ...
MaxPower == 3

\* the values 0..MaxValue are converted between all pairs of expressions
MaxValue == 1

\* str(n) for n >= 0
RECURSIVE IntToStr(_)
IntToStr(n) ==
    IF n < 10 THEN <<Digits[n + 1]>>
    ELSE IntToStr(n \div 10) \o <<Digits[(n % 10) + 1]>>

Values == {Num(i) : i \in 0..MaxValue}

\* further readings converted between the temperature scales
Temperatures == {Num(-40), Num(32), Num(100)}

LiteralExprs ==
    {
     <<>>,  \* ''
     <<"1">>,  \* '1'
     <<"d", "i", "m", "e", "n", "s", "i", "o", "n", "l", "e", "s", "s">>,  \* 'dimensionless'
     <<"K">>,  \* 'K'
     <<"d", "e", "g", "C">>,  \* 'degC'
     <<"d", "e", "g", "F">>,  \* 'degF'
     <<"d", "e", "g", "R">>,  \* 'degR'
     <<"m">>,  \* 'm'
     <<"s">>,  \* 's'
     <<"k", "g">>,  \* 'kg'
     <<"J">>,  \* 'J'
     <<"W">>,  \* 'W'
     <<"m", "/", "m">>,  \* 'm/m'
     <<"m", ".", "m">>,  \* 'm.m'
     <<"m", "/", "s">>,  \* 'm/s'
     <<"m", ".", "s">>,  \* 'm.s'
     <<"k", "g", " ", ".", " ", "m">>,  \* 'kg . m'
     <<"g", ".", "m">>,  \* 'g.m'
     <<"x", "y", "z">>,  \* 'xyz'
     <<"m", "/", "x", "y", "z">>,  \* 'm/xyz'
     <<"x", "y", "z", "2">>,  \* 'xyz2'
     <<"2">>,  \* '2'
     <<"d", "e", "g", "F", "2">>,  \* 'degF2'
     <<"m", "K">>,  \* 'mK'
     <<"K", "/", "s">>,  \* 'K/s'
     <<"d", "e", "g", "C", "/", "s">>,  \* 'degC/s'
     <<"d", "e", "g", "F", "/", "s">>,  \* 'degF/s'
     <<"d", "e", "g", "R", "/", "s">>,  \* 'degR/s'
     <<"W", "/", "(", "m", "2", ".", "K", ")">>,  \* 'W/(m2.K)'
     <<"k", "W", "/", "(", "m", "2", ".", "K", ")">>,  \* 'kW/(m2.K)'
     <<"B", "t", "u", "/", "(", "h", ".", "f", "t", "2", ".", "d", "e", "g", "F", ")">>,  \* 'Btu/(h.ft2.degF)'
     <<"W", "/", "m", "2", ".", "K">>,  \* 'W/m2.K'
     <<"B", "t", "u", "/", "f", "t", "2", ".", "h", "r", ".", "d", "e", "g", "F">>,  \* 'Btu/ft2.hr.degF'
     <<"J", "/", "(", "m", "o", "l", ".", "K", ")">>,  \* 'J/(mol.K)'
     <<"p", "s", "i", "a", ".", "f", "t", "3", "/", "(", "l", "b", "m", "o", "l", ".", "d", "e", "g", "R", ")">>,  \* 'psia.ft3/(lbmol.degR)'
     <<"p", "s", "i", ".", "f", "t", "3", "/", "(", "l", "b", "m", "o", "l", ".", "d", "e", "g", "R", ")">>,  \* 'psi.ft3/(lbmol.degR)'
     <<"a", "t", "m", ".", "L", "/", "(", "m", "o", "l", ".", "K", ")">>,  \* 'atm.L/(mol.K)'
     <<"k", "g", "/", "m", "2", ".", "s">>,  \* 'kg/m2.s'
     <<"k", "g", "/", "(", "m", "2", ".", "s", ")">>,  \* 'kg/(m2.s)'
     <<"(", "k", "g", ".", "m", ")", "/", "s">>,  \* '(kg.m)/s'
     <<"m", "/", "s", "/", "s">>,  \* 'm/s/s'
     <<"k", "g", "m", "o", "l">>,  \* 'kgmol'
     <<"m", "o", "l", "/", "s">>,  \* 'mol/s'
     <<"l", "b", "m", "o", "l", "/", "h", "r">>   \* 'lbmol/hr'
    }

PowerExprs == {<<"m">> \o IntToStr(n) : n \in 0..MaxPower}

Exprs == LiteralExprs \cup PowerExprs

\* every symbol of the unit table, converted to itself
IdentityPairs == {<<u, u>> : u \in DOMAIN NewConverter.unit_dict}

\* prefix + prefixable symbol, converted to the symbol
PrefixPairs ==
    {<<PREFIXES[j].prefix \o base_si_units[i], base_si_units[i]>> :
        i \in 1..Len(base_si_units), j \in 1..Len(PREFIXES)}

Pairs == (Exprs \X Exprs) \cup IdentityPairs \cup PrefixPairs

\* further calls convert(1, from_unit, to_unit): groups in parentheses, several
\* "/", power suffixes, prefixed symbols and empty tokens
ProbePairs ==
    {
     <<<<"(", "k", "g", ".", "m", ")">>,
       <<"k", "g", ".", "m">>>>,  \* '(kg.m)' -> 'kg.m'
     <<<<"(", "m", ")">>,
       <<"m">>>>,  \* '(m)' -> 'm'
     <<<<"(", "k", "g", ".", "m", ")", "/", "(", "s", ")">>,
       <<"k", "g", ".", "m", "/", "s">>>>,  \* '(kg.m)/(s)' -> 'kg.m/s'
     <<<<"k", "g", ".", "m", "/", "(", "s", ")">>,
       <<"k", "g", ".", "m", "/", "s">>>>,  \* 'kg.m/(s)' -> 'kg.m/s'
     <<<<"(", "k", "g", ".", "m", ")", "/", "s">>,
       <<"k", "g", ".", "m", "/", "s">>>>,  \* '(kg.m)/s' -> 'kg.m/s'
     <<<<"k", "g", ".", "m", "/", "s">>,
       <<"(", "k", "g", ".", "m", ")", "/", "(", "s", ")">>>>,  \* 'kg.m/s' -> '(kg.m)/(s)'
     <<<<"(", "k", "g", ".", "m", ")", "/", "(", "s", "2", ".", "K", ")">>,
       <<"k", "g", ".", "m", "/", "s", "2", ".", "K">>>>,  \* '(kg.m)/(s2.K)' -> 'kg.m/s2.K'
     <<<<"m", "/", "s", "/", "s">>,
       <<"m", "/", "s", "2">>>>,  \* 'm/s/s' -> 'm/s2'
     <<<<"W", "/", "(", "m", "2", ".", "K", ")", "/", "s">>,
       <<"W", "/", "m", "2", ".", "K", ".", "s">>>>,  \* 'W/(m2.K)/s' -> 'W/m2.K.s'
     <<<<"m", "/", "(", "s", ")", "/", "s">>,
       <<"m", "/", "s", "2">>>>,  \* 'm/(s)/s' -> 'm/s2'
     <<<<"W", "/", "m", "2", "/", "K">>,
       <<"W", "/", "(", "m", "2", ".", "K", ")">>>>,  \* 'W/m2/K' -> 'W/(m2.K)'
     <<<<"k", "g", "/", "m", "2", ".", "s">>,
       <<"k", "g", ".", "s", "/", "m", "2">>>>,  \* 'kg/m2.s' -> 'kg.s/m2'
     <<<<"m", "o", "l", "/", "m", "3", ".", "s">>,
       <<"k", "m", "o", "l", "/", "m", "3", ".", "h", "r">>>>,  \* 'mol/m3.s' -> 'kmol/m3.hr'
     <<<<"k", "g", "/", "m", "2", ".", "s">>,
       <<"l", "b", "/", "f", "t", "2", ".", "h", "r">>>>,  \* 'kg/m2.s' -> 'lb/ft2.hr'
     <<<<"f", "t", "3">>,
       <<"f", "t", ".", "f", "t", ".", "f", "t">>>>,  \* 'ft3' -> 'ft.ft.ft'
     <<<<"m", "2">>,
       <<"m", ".", "m">>>>,  \* 'm2' -> 'm.m'
     <<<<"m", "0", "2">>,
       <<"m", "2">>>>,  \* 'm02' -> 'm2'
     <<<<"K", "2">>,
       <<"K", ".", "K">>>>,  \* 'K2' -> 'K.K'
     <<<<"k", "f", "t", "2">>,
       <<"f", "t", "2">>>>,  \* 'kft2' -> 'ft2'
     <<<<"m", "1", "0">>,
       <<"m", "m", "1", "0">>>>,  \* 'm10' -> 'mm10'
     <<<<"l", "b", "f", "2">>,
       <<"l", "b", "f", ".", "l", "b", "f">>>>,  \* 'lbf2' -> 'lbf.lbf'
     <<<<"m", "i", "n">>,
       <<"s">>>>,  \* 'min' -> 's'
     <<<<"h", "p">>,
       <<"W">>>>,  \* 'hp' -> 'W'
     <<<<"k", "c", "a", "l">>,
       <<"J">>>>,  \* 'kcal' -> 'J'
     <<<<"k", "c", "a", "l">>,
       <<"c", "a", "l">>>>,  \* 'kcal' -> 'cal'
     <<<<"k", "g", "m", "o", "l">>,
       <<"m", "o", "l">>>>,  \* 'kgmol' -> 'mol'
     <<<<"k", "m", "m">>,
       <<"m">>>>,  \* 'kmm' -> 'm'
     <<<<"k", "k", "g">>,
       <<"k", "g">>>>,  \* 'kkg' -> 'kg'
     <<<<"m", "k", "P", "a">>,
       <<"P", "a">>>>,  \* 'mkPa' -> 'Pa'
     <<<<"k", "k", "m", "m">>,
       <<"m">>>>,  \* 'kkmm' -> 'm'
     <<<<"m", "/">>,
       <<"m">>>>,  \* 'm/' -> 'm'
     <<<<"/", "s">>,
       <<"1", "/", "s">>>>,  \* '/s' -> '1/s'
     <<<<"k", "g", ".", ".", "m">>,
       <<"k", "g", ".", "m">>>>,  \* 'kg..m' -> 'kg.m'
     <<<<".", "m">>,
       <<"m">>>>,  \* '.m' -> 'm'
     <<<<"m", ".">>,
       <<"m">>>>,  \* 'm.' -> 'm'
     <<<<"/">>,
       <<"1">>>>,  \* '/' -> '1'
     <<<<"m", "/", ".", "s">>,
       <<"m", "/", "s">>>>,  \* 'm/.s' -> 'm/s'
     <<<<"m", "/", "(", ")">>,
       <<"m">>>>,  \* 'm/()' -> 'm'
     <<<<"x", "y", "z", "/">>,
       <<"m">>>>,  \* 'xyz/' -> 'm'
     <<<<"m", ".">>,
       <<"s">>>>   \* 'm.' -> 's'
    }

\* every prefix in front of every key of the unit table, converted to the key
ResolverPairs ==
    {<<PREFIXES[j].prefix \o r, r>> :
        j \in 1..Len(PREFIXES), r \in DOMAIN NewConverter.unit_dict}

NoCall == [kind |-> "none"]

VARIABLES
    converter,   \* the singleton _converter: its unit_dict and dimension_dict
    pc,          \* "idle", "returned" (convert has ended), "back" (so has the reverse call)
    value,       \* the arguments of the last call
    from_unit,
    to_unit,
    result,      \* the outcome of the last call
    back         \* the outcome of converting the result back

vars == <<converter, pc, value, from_unit, to_unit, result, back>>

Init ==
    /\ converter = NewConverter
    /\ pc = "idle"
    /\ value = Zero
    /\ from_unit = <<>>
    /\ to_unit = <<>>
    /\ result = NoCall
    /\ back = NoCall

\* convert(v, f, t) of __init__.py: _converter.convert(v, f, t)
Call(v, f, t) ==
    /\ pc = "idle"
    /\ value' = v
    /\ from_unit' = f
    /\ to_unit' = t
    /\ result' = convert(converter, v, f, t)
    /\ converter' = SelfAfterConvert(converter, f, t)
    /\ back' = NoCall
    /\ pc' = "returned"

\* the caller converts a returned value back: convert(result, to_unit, from_unit)
CallBack ==
    /\ pc = "returned"
    /\ result.kind = "ok"
    /\ back' = convert(converter, result.value, to_unit, from_unit)
    /\ converter' = SelfAfterConvert(converter, to_unit, from_unit)
    /\ pc' = "back"
    /\ UNCHANGED <<value, from_unit, to_unit, result>>

\* the caller is done with the outcome
Return ==
    /\ pc \in {"returned", "back"}
    /\ pc' = "idle"
    /\ value' = Zero
    /\ from_unit' = <<>>
    /\ to_unit' = <<>>
    /\ result' = NoCall
    /\ back' = NoCall
    /\ UNCHANGED converter

Next ==
    \/ \E v \in Values, p \in Pairs : Call(v, p[1], p[2])
    \/ \E v \in Temperatures, f \in TEMPERATURE_UNITS, t \in TEMPERATURE_UNITS :
          Call(v, f, t)
    \/ \E p \in ProbePairs \cup ResolverPairs : Call(One, p[1], p[2])
    \/ CallBack
    \/ Return

Spec == Init /\ [][Next]_vars

(***************************************************************************)
(* Vocabulary of the properties                                            *)
(***************************************************************************)

Axes == {DIMENSIONS[i] : i \in 1..Len(DIMENSIONS)}

\* a dimension map as a vector over all seven axes, an absent axis being 0
Vector(dims) == [a \in Axes |-> Get(dims, a)]

TableSymbols == DOMAIN converter.unit_dict

\* the call went through the parser, not through _convert_temperature
NonTemperaturePath ==
    ~(from_unit \in TEMPERATURE_UNITS /\ to_unit \in TEMPERATURE_UNITS)

Parsed(expr) == _parse_unit_expression_with_dims(converter, expr)

\* expressions the parser answers without looking at any token
IsDimensionless(expr) ==
    expr \in {<<>>, <<"1">>,
              <<"d", "i", "m", "e", "n", "s", "i", "o", "n", "l", "e", "s", "s">>}

IsSimple(expr) == ~Contains(expr, "/") /\ ~Contains(expr, ".")

\* every part split on "."
RECURSIVE SplitAll(_)
SplitAll(parts) ==
    IF parts = <<>> THEN <<>>
    ELSE Split(Head(parts), ".") \o SplitAll(Tail(parts))

\* the tokens the parser hands to the resolver, in the order it does
NumTokens(expr) ==
    IF IsDimensionless(expr) THEN <<>>
    ELSE IF IsSimple(expr) THEN <<expr>>
    ELSE SplitAll(_split_unit_expression(expr).numerator)

DenTokens(expr) ==
    IF IsDimensionless(expr) \/ IsSimple(expr) THEN <<>>
    ELSE SplitAll(_split_unit_expression(expr).denominator)

TokensOf(expr) == NumTokens(expr) \o DenTokens(expr)

\* the base-unit candidate of a token: the token without its trailing digits
Candidate(tok) ==
    IF tok # <<>> /\ IsDigit(tok[Len(tok)]) THEN SubSeq(tok, 1, PowerStart(tok))
    ELSE tok

\* sym is a table symbol, or one known prefix followed by a table symbol
ResolvesToTable(sym) ==
    \/ sym \in TableSymbols
    \/ \E j \in 1..Len(PREFIXES) :
          /\ StartsWith(sym, PREFIXES[j].prefix)
          /\ DropFirst(sym, Len(PREFIXES[j].prefix)) \in TableSymbols

\* the resolver has an answer for the token: the empty token and "1" are the
\* dimensionless unit, a temperature symbol has its scale factor
TokenResolves(tok) ==
    \/ tok \in {<<>>, <<"1">>}
    \/ tok \in TEMPERATURE_UNITS
    \/ ResolvesToTable(Candidate(tok))

Resolved(tok) == _parse_simple_unit_with_dims(converter, tok).value

\* the product of a sequence of numbers
RECURSIVE Product(_)
Product(nums) ==
    IF nums = <<>> THEN One
    ELSE Mul(Head(nums), Product(Tail(nums)))

\* the sum over a sequence of tokens of the exponent of axis a
RECURSIVE ExponentSum(_, _)
ExponentSum(tokens, a) ==
    IF tokens = <<>> THEN 0
    ELSE Get(Resolved(Head(tokens)).dims, a) + ExponentSum(Tail(tokens), a)

TokenFactor(tok) == Resolved(tok).factor

\* factor and dimension vector of an expression from those of its tokens
FactorOf(expr) ==
    LET num == NumTokens(expr)
        den == DenTokens(expr)
    IN  Div(Product([i \in 1..Len(num) |-> TokenFactor(num[i])]),
            Product([i \in 1..Len(den) |-> TokenFactor(den[i])]))

VectorOf(expr) ==
    [a \in Axes |-> ExponentSum(NumTokens(expr), a) - ExponentSum(DenTokens(expr), a)]

AllResolve(expr) ==
    \A i \in 1..Len(TokensOf(expr)) : TokenResolves(TokensOf(expr)[i])

(***************************************************************************)
(* C1                                                                      *)
(***************************************************************************)

\* C1: on the non-temperature path, when both expressions resolve, convert
\* fails with IncompatibleDimensions exactly when the two dimension vectors
\* differ on one of the 7 axes, an absent axis counting as exponent 0 and an
\* axis present with exponent 0 counting like an absent one; it fails that way
\* in no other case, and m/m and m0 are compatible with 1.
C1_IncompatibleIffVectorsDiffer ==
    (pc = "returned" /\ NonTemperaturePath) =>
        LET f == Parsed(from_unit)
            t == Parsed(to_unit)
        IN  /\ (f.kind = "ok" /\ t.kind = "ok") =>
                   ((result.kind = "IncompatibleDimensions")
                      <=> (Vector(f.value.dims) # Vector(t.value.dims)))
            /\ (result.kind = "IncompatibleDimensions") =>
                   (f.kind = "ok" /\ t.kind = "ok")
            /\ (from_unit \in {<<"m", "/", "m">>, <<"m", "0">>} /\ to_unit = <<"1">>) =>
                   result = Ok(value)

\* a call from m/m, whose vector holds Length with exponent 0, to 1 returned
C1_Witness ==
    /\ pc = "returned"
    /\ from_unit = <<"m", "/", "m">>
    /\ to_unit = <<"1">>
    /\ "L" \in DOMAIN Parsed(from_unit).value.dims
    /\ result.kind = "ok"

(***************************************************************************)
(* C2                                                                      *)
(***************************************************************************)

\* C2: if some token of fromUnit or toUnit cannot be resolved to a table
\* symbol, directly or after stripping one known prefix, convert fails with
\* UnknownUnit naming the base-unit candidate of the first such token and
\* returns no value; convert(1, "xyz", "m") fails with UnknownUnit.
C2_UnresolvedTokenFails ==
    (pc = "returned") =>
        LET toks == TokensOf(from_unit) \o TokensOf(to_unit)
            bad == {i \in 1..Len(toks) : ~TokenResolves(toks[i])}
        IN  /\ (NonTemperaturePath /\ bad # {}) =>
                   /\ result.kind = "UnknownUnit"
                   /\ result.unit = Candidate(toks[Min(bad)])
            /\ (from_unit = <<"x", "y", "z">> /\ to_unit = <<"m">>) =>
                   result.kind = "UnknownUnit"

\* a call whose toUnit has the unknown token xyz in its denominator failed
C2_Witness ==
    /\ pc = "returned"
    /\ from_unit = <<"m", "/", "s">>
    /\ to_unit = <<"m", "/", "x", "y", "z">>
    /\ result.kind = "UnknownUnit"
    /\ result.unit = <<"x", "y", "z">>

(***************************************************************************)
(* C3                                                                      *)
(***************************************************************************)

\* C3: when both expressions resolve and their dimension vectors are equal,
\* convert returns value * (fromFactor / toFactor), the factor of an
\* expression being the product of its numerator tokens' factors divided by
\* the product of its denominator tokens' factors and its dimension vector the
\* sum of the numerator tokens' vectors minus the sum of the denominator
\* tokens' vectors.
C3_ScaledByFactorRatio ==
    (pc = "returned" /\ NonTemperaturePath
       /\ AllResolve(from_unit) /\ AllResolve(to_unit)) =>
        /\ Parsed(from_unit).kind = "ok"
        /\ Parsed(from_unit).value.factor = FactorOf(from_unit)
        /\ Vector(Parsed(from_unit).value.dims) = VectorOf(from_unit)
        /\ Parsed(to_unit).kind = "ok"
        /\ Parsed(to_unit).value.factor = FactorOf(to_unit)
        /\ Vector(Parsed(to_unit).value.dims) = VectorOf(to_unit)
        /\ (VectorOf(from_unit) = VectorOf(to_unit)) =>
               result = Ok(Mul(value, Div(FactorOf(from_unit), FactorOf(to_unit))))
        /\ (from_unit = <<"k", "W", "/", "(", "m", "2", ".", "K", ")">>
              /\ to_unit = <<"W", "/", "(", "m", "2", ".", "K", ")">>) =>
               result = Ok(Mul(value, Num(1000)))

\* a conversion between two compound expressions with several tokens returned
C3_Witness ==
    /\ pc = "returned"
    /\ from_unit = <<"p", "s", "i", ".", "f", "t", "3", "/", "(", "l", "b", "m", "o", "l", ".", "d", "e", "g", "R", ")">>
    /\ to_unit = <<"J", "/", "(", "m", "o", "l", ".", "K", ")">>
    /\ value = Num(1)
    /\ result.kind = "ok"

(***************************************************************************)
(* C4                                                                      *)
(***************************************************************************)

\* the reading v of a temperature scale in kelvin: K = degC + 273.15,
\* K = (degF - 32) * 5/9 + 273.15, K = degR * 5/9
KelvinOf(v, unit) ==
    IF unit = <<"K">> THEN v
    ELSE IF unit = <<"d", "e", "g", "C">> THEN Add(v, Dec(27315, -2))
    ELSE IF unit = <<"d", "e", "g", "F">>
         THEN Add(Mul(Sub(v, Num(32)), Div(Num(5), Num(9))), Dec(27315, -2))
    ELSE Mul(v, Div(Num(5), Num(9)))

\* the reading of k kelvin on a temperature scale: degC = K - 273.15,
\* degF = (K - 273.15) * 9/5 + 32, degR = K * 9/5
ReadingOf(k, unit) ==
    IF unit = <<"K">> THEN k
    ELSE IF unit = <<"d", "e", "g", "C">> THEN Sub(k, Dec(27315, -2))
    ELSE IF unit = <<"d", "e", "g", "F">>
         THEN Add(Mul(Sub(k, Dec(27315, -2)), Div(Num(9), Num(5))), Num(32))
    ELSE Mul(k, Div(Num(9), Num(5)))

\* C4: when fromUnit and toUnit are both exactly one of K, degC, degF, degR,
\* convert returns fromKelvin(toKelvin(value, fromUnit), toUnit) by the affine
\* formulas, without parsing or dimension-checking the expressions (the result
\* is the affine one also where the parser would scale by a factor alone);
\* 0 degC is 273.15 K, 32 degF is 0 degC and 100 degC is 212 degF.
C4_TemperaturePairsAffine ==
    (pc = "returned" /\ ~NonTemperaturePath) =>
        /\ result = Ok(ReadingOf(KelvinOf(value, from_unit), to_unit))
        /\ KelvinOf(result.value, to_unit) = KelvinOf(value, from_unit)
        /\ (from_unit = <<"d", "e", "g", "C">> /\ to_unit = <<"K">> /\ value = Num(0)) =>
               result = Ok(Dec(27315, -2))
        /\ (from_unit = <<"d", "e", "g", "F">> /\ to_unit = <<"d", "e", "g", "C">>
              /\ value = Num(32)) => result = Ok(Num(0))
        /\ (from_unit = <<"d", "e", "g", "C">> /\ to_unit = <<"d", "e", "g", "F">>
              /\ value = Num(100)) => result = Ok(Num(212))

\* 32 degF was converted to degC and gave 0
C4_Witness ==
    /\ pc = "returned"
    /\ from_unit = <<"d", "e", "g", "F">>
    /\ to_unit = <<"d", "e", "g", "C">>
    /\ value = Num(32)
    /\ result = Ok(Zero)

(***************************************************************************)
(* C5                                                                      *)
(***************************************************************************)

\* the scale factor of a temperature symbol: 1 for K and degC, 5/9 for degF
\* and degR
ScaleOf(tok) ==
    IF tok \in {<<"K">>, <<"d", "e", "g", "C">>} THEN One ELSE Div(Num(5), Num(9))

\* the temperature symbols among the tokens of an expression
TemperatureTokens(expr) ==
    {TokensOf(expr)[i] : i \in 1..Len(TokensOf(expr))} \cap TEMPERATURE_UNITS

\* the factor of a token, a temperature symbol counting with its scale factor
ScaledTokenFactor(tok) ==
    IF tok \in TEMPERATURE_UNITS THEN ScaleOf(tok) ELSE TokenFactor(tok)

ScaledFactorOf(expr) ==
    Div(Product([i \in 1..Len(NumTokens(expr)) |-> ScaledTokenFactor(NumTokens(expr)[i])]),
        Product([i \in 1..Len(DenTokens(expr)) |-> ScaledTokenFactor(DenTokens(expr)[i])]))

\* C5: when fromUnit and toUnit are not both bare temperature symbols, a
\* temperature symbol occurring as a token contributes dimension
\* Temperature^1 and a purely multiplicative scale factor, 1 for K and degC
\* and 5/9 for degF and degR; no affine offset enters the result: the result
\* is value times the ratio of the two factors, e.g. degC to mK multiplies by
\* 1000 and degF/s to K/s by 5/9.
C5_TemperatureTokenScales ==
    (pc = "returned" /\ NonTemperaturePath) =>
        /\ \A tok \in TemperatureTokens(from_unit) \cup TemperatureTokens(to_unit) :
               /\ _parse_simple_unit_with_dims(converter, tok).kind = "ok"
               /\ Resolved(tok).factor = ScaleOf(tok)
               /\ Vector(Resolved(tok).dims) = [a \in Axes |-> IF a = "Theta" THEN 1 ELSE 0]
        /\ (/\ TemperatureTokens(from_unit) \cup TemperatureTokens(to_unit) # {}
            /\ AllResolve(from_unit) /\ AllResolve(to_unit)
            /\ VectorOf(from_unit) = VectorOf(to_unit)) =>
               result = Ok(Mul(value, Div(ScaledFactorOf(from_unit), ScaledFactorOf(to_unit))))
        /\ (from_unit = <<"d", "e", "g", "C">> /\ to_unit = <<"m", "K">>) =>
               result = Ok(Mul(value, Num(1000)))
        /\ (from_unit = <<"d", "e", "g", "F", "/", "s">> /\ to_unit = <<"K", "/", "s">>) =>
               result = Ok(Mul(value, Div(Num(5), Num(9))))

\* a heat-transfer coefficient with degF in its denominator was converted
C5_Witness ==
    /\ pc = "returned"
    /\ from_unit = <<"B", "t", "u", "/", "(", "h", ".", "f", "t", "2", ".", "d", "e", "g", "F", ")">>
    /\ to_unit = <<"W", "/", "(", "m", "2", ".", "K", ")">>
    /\ <<"d", "e", "g", "F">> \in TemperatureTokens(from_unit)
    /\ value = Num(1)
    /\ result.kind = "ok"

(***************************************************************************)
(* C6                                                                      *)
(***************************************************************************)

C6_WitnessFailure ==
    /\ pc = "returned"
    /\ result.kind = "UnknownUnit"
    /\ converter = NewConverter

(***************************************************************************)
(* C7                                                                      *)
(***************************************************************************)

C7_WitnessMultiplicative ==
    /\ pc = "back"
    /\ from_unit = <<"B", "t", "u", "/", "(", "h", ".", "f", "t", "2", ".", "d", "e", "g", "F", ")">>
    /\ to_unit = <<"W", "/", "(", "m", "2", ".", "K", ")">>
    /\ value = Num(1)
    /\ result # Ok(value)
    /\ back = Ok(value)

(***************************************************************************)
(* C8                                                                      *)
(***************************************************************************)

\* C8: identity: for every symbol u of the unit table, every generated
\* prefixed variant included, convert(v, u, u) succeeds and returns exactly v.
C8_Identity ==
    (pc = "returned" /\ from_unit = to_unit /\ from_unit \in TableSymbols) =>
        result = Ok(value)

\* a generated prefixed variant with a factor other than 1 was converted to itself
C8_Witness ==
    /\ pc = "returned"
    /\ from_unit = <<"m", "u", "m", "o", "l">>
    /\ to_unit = from_unit
    /\ from_unit \in TableSymbols
    /\ converter.unit_dict[from_unit] = Dec(1, -6)
    /\ value = Num(1)
    /\ result = Ok(value)

(***************************************************************************)
(* C9                                                                      *)
(***************************************************************************)

\* the factor the table declares for a prefixable symbol
BaseFactor(b) == SourceTable(b)[b].factor

C10_PsiaSupported ==
    (/\ pc = "returned"
     /\ from_unit = <<"J", "/", "(", "m", "o", "l", ".", "K", ")">>
     /\ to_unit = <<"p", "s", "i", "a", ".", "f", "t", "3", "/", "(", "l", "b", "m", "o", "l", ".", "d", "e", "g", "R", ")">>) =>
        /\ AllResolve(to_unit)
        /\ result.kind = "ok"

(***************************************************************************)
(* C11                                                                     *)
(***************************************************************************)

\* the number of "/" in an expression
Slashes(expr) == Len(SelectSeq(expr, LAMBDA c : c = "/"))

\* a group of "."-separated tokens, bare or wrapped in one pair of parentheses
IsGroup(g) ==
    LET inner == IF StartsWith(g, <<"(">>) /\ EndsWith(g, <<")">>)
                 THEN SubSeq(g, 2, Len(g) - 1) ELSE g
    IN  ~Contains(inner, "(") /\ ~Contains(inner, ")") /\ inner # <<>>

\* one group, or one group over one group, at least one of them wrapped
HasWrappedGroup(expr) ==
    /\ Slashes(expr) <= 1
    /\ Contains(expr, "(")
    /\ \A i \in 1..Len(Split(expr, "/")) : IsGroup(Split(expr, "/")[i])

\* the expression with the parentheses around its groups taken away
Unwrapped(expr) == SelectSeq(expr, LAMBDA c : c \notin {"(", ")"})

\* C11: wrapping a group in one matching pair of parentheses never changes the
\* parse: (g) parses to the same (factor, dimensions) as g also when the
\* expression has no "/", as for (kg.m) and (m), and (n)/(d), n/(d) and (n)/d
\* parse the same as n over the group d.
C11_ParenthesesNeverChangeParse ==
    (pc = "returned" /\ HasWrappedGroup(from_unit)) =>
        Parsed(from_unit) = Parsed(Unwrapped(from_unit))

(***************************************************************************)
(* C12                                                                     *)
(***************************************************************************)

HasParenthesis(expr) == Contains(expr, "(") \/ Contains(expr, ")")

\* C12 as stated: convert never returns a value for a fromUnit or toUnit that
\* contains two or more "/".
C12_SeveralSlashesFail ==
    (pc = "returned" /\ (Slashes(from_unit) >= 2 \/ Slashes(to_unit) >= 2)) =>
        result.kind # "ok"

\* the parts of s joined by "."
RECURSIVE JoinDots(_)
JoinDots(parts) ==
    IF Len(parts) = 1 THEN parts[1]
    ELSE parts[1] \o <<".">> \o JoinDots(Tail(parts))

\* n/d1/.../dk written as n/(d1. ... .dk)
AsOneDenominator(expr) ==
    Split(expr, "/")[1] \o <<"/", "(">> \o JoinDots(Tail(Split(expr, "/"))) \o <<")">>

\* C12: an expression with two or more "/" fails with UnknownUnit when it
\* also holds a parenthesis (W/(m2.K)/s); without parentheses every part
\* after the first "/" is a denominator group, n/d1/.../dk parsing to the same
\* (factor, dimensions) as n/(d1. ... .dk), and convert returns a value
\* (convert(v, "m/s/s", "m/s2") = v).
C12_SeveralSlashes ==
    (pc = "returned" /\ NonTemperaturePath) =>
        /\ \A e \in {from_unit, to_unit} :
              (Slashes(e) >= 2 /\ HasParenthesis(e)) => result.kind = "UnknownUnit"
        /\ \A e \in {from_unit, to_unit} :
              (Slashes(e) >= 2 /\ ~HasParenthesis(e)) =>
                  Parsed(e) = Parsed(AsOneDenominator(e))
        /\ (from_unit = <<"m", "/", "s", "/", "s">> /\ to_unit = <<"m", "/", "s", "2">>) =>
              result = Ok(value)

\* a call from m/s/s to m/s2 returned a value
C12_Witness ==
    /\ pc = "returned"
    /\ from_unit = <<"m", "/", "s", "/", "s">>
    /\ to_unit = <<"m", "/", "s", "2">>
    /\ Parsed(from_unit) = Parsed(<<"m", "/", "(", "s", ".", "s", ")">>)
    /\ result.kind = "ok"

\* a call from W/(m2.K)/s failed with UnknownUnit
C12_WitnessParenthesis ==
    /\ pc = "returned"
    /\ from_unit = <<"W", "/", "(", "m", "2", ".", "K", ")", "/", "s">>
    /\ result.kind = "UnknownUnit"

(***************************************************************************)
(* C13                                                                     *)
(***************************************************************************)

\* C13: in an expression with one "/" and no parentheses every "."-separated
\* token to the right of the "/" belongs to the denominator: n/d1.d2...dk
\* parses to the same (factor, dimensions) as n/(d1.d2...dk), so kg/m2.s is
\* kg per (m2 times s), convertible to kg/(m2.s) and not to kg.s/m2.
C13_RightOfSlashIsDenominator ==
    (pc = "returned" /\ NonTemperaturePath) =>
        /\ \A e \in {from_unit, to_unit} :
              (Slashes(e) = 1 /\ ~HasParenthesis(e)) =>
                  Parsed(e) = Parsed(AsOneDenominator(e))
        /\ (/\ from_unit = <<"k", "g", "/", "m", "2", ".", "s">>
            /\ to_unit = <<"k", "g", "/", "(", "m", "2", ".", "s", ")">>) =>
               result = Ok(value)
        /\ (/\ from_unit = <<"k", "g", "/", "m", "2", ".", "s">>
            /\ to_unit = <<"k", "g", ".", "s", "/", "m", "2">>) =>
               result.kind = "IncompatibleDimensions"

\* a call from kg/m2.s to kg/(m2.s) returned the value unchanged
C13_Witness ==
    /\ pc = "returned"
    /\ from_unit = <<"k", "g", "/", "m", "2", ".", "s">>
    /\ to_unit = <<"k", "g", "/", "(", "m", "2", ".", "s", ")">>
    /\ Get(Parsed(from_unit).value.dims, "T") = -1
    /\ result = Ok(value)

(***************************************************************************)
(* C14                                                                     *)
(***************************************************************************)

\* the integer written by the trailing digits of a token, 1 without digits
Exponent(tok) ==
    IF IsDigit(tok[Len(tok)]) THEN ParseInt(DropFirst(tok, Len(Candidate(tok))))
    ELSE 1

\* x multiplied n times
RECURSIVE Times(_, _)
Times(x, n) == IF n = 0 THEN One ELSE Mul(x, Times(x, n - 1))

\* the token repeated n >= 1 times with "." in between
Repeated(u, n) == JoinDots([i \in 1..n |-> u])

\* the tokens of both arguments that are a resolvable candidate with or
\* without digits, the temperature symbols and the units "" and "1" put aside
PowerTokens ==
    {tok \in {(TokensOf(from_unit) \o TokensOf(to_unit))[i] :
                 i \in 1..Len(TokensOf(from_unit) \o TokensOf(to_unit))} :
        /\ tok \notin {<<>>, <<"1">>}
        /\ tok \notin TEMPERATURE_UNITS
        /\ ResolvesToTable(Candidate(tok))}

\* C14: a non-temperature token made of a candidate u that resolves against
\* the unit table and of digits writing n >= 0 resolves to factor(u)^n with
\* every exponent of dims(u) multiplied by n, n being 1 without digits; for
\* n >= 1 the token parses the same as u multiplied n times (m2 as m.m).
C14_PowerSuffix ==
    (pc = "returned") =>
        \A tok \in PowerTokens :
            LET u == Candidate(tok)
                n == Exponent(tok)
            IN  /\ Resolved(tok).factor =
                       Times(_get_unit_factor(converter, u).value, n)
                /\ Vector(Resolved(tok).dims) =
                       [a \in Axes |->
                           n * Get(_get_unit_dimensions(converter, u).value, a)]
                /\ (n >= 1) =>
                       /\ Parsed(tok).value.factor = Parsed(Repeated(u, n)).value.factor
                       /\ Vector(Parsed(tok).value.dims) =
                              Vector(Parsed(Repeated(u, n)).value.dims)

\* a call from ft3 to ft.ft.ft returned the value unchanged
C14_Witness ==
    /\ pc = "returned"
    /\ from_unit = <<"f", "t", "3">>
    /\ to_unit = <<"f", "t", ".", "f", "t", ".", "f", "t">>
    /\ <<"f", "t", "3">> \in PowerTokens
    /\ Get(Resolved(from_unit).dims, "L") = 3
    /\ result = Ok(value)

(***************************************************************************)
(* C15                                                                     *)
(***************************************************************************)

\* a token that is a base-unit candidate as it stands: no "/", ".", digits at
\* the end, and none of the symbols answered before the table is looked at
IsCandidate(tok) ==
    /\ tok # <<>>
    /\ ~IsDimensionless(tok)
    /\ IsSimple(tok)
    /\ tok \notin TEMPERATURE_UNITS
    /\ ~IsDigit(tok[Len(tok)])

\* the entries of the base and derived tables
OwnEntries == DERIVED_UNITS @@ BASE_UNITS

\* the positions of the prefixes that split s into prefix + key of the table
Splits(s) ==
    {j \in 1..Len(PREFIXES) :
        /\ StartsWith(s, PREFIXES[j].prefix)
        /\ DropFirst(s, Len(PREFIXES[j].prefix)) \in TableSymbols}

\* C15: a base-unit candidate s that is a table symbol resolves to its own
\* entry and no prefix is stripped (min is 60 s; cd, Pa, hp, ft, kg are their
\* own entries); only when s is absent from the table is it resolved as a
\* prefix p followed by a table symbol r, to mult(p) * factor(r) and dims(r),
\* for every table symbol r, prefixable or not (kcal is 1000 cal).
C15_ResolutionOrder ==
    (pc = "returned" /\ IsCandidate(from_unit)) =>
        /\ (from_unit \in TableSymbols) =>
               Resolved(from_unit) =
                   [factor |-> converter.unit_dict[from_unit],
                    dims |-> converter.dimension_dict[from_unit]]
        /\ (from_unit \in DOMAIN OwnEntries) =>
               Resolved(from_unit) =
                   [factor |-> OwnEntries[from_unit].factor,
                    dims |-> OwnEntries[from_unit].dimensions]
        /\ (from_unit \notin TableSymbols) =>
               \A j \in Splits(from_unit) :
                   LET r == DropFirst(from_unit, Len(PREFIXES[j].prefix))
                   IN  _parse_simple_unit_with_dims(converter, from_unit) =
                           Ok([factor |-> Mul(PREFIXES[j].factor, converter.unit_dict[r]),
                               dims |-> converter.dimension_dict[r]])
        /\ (from_unit = <<"m", "i", "n">> /\ to_unit = <<"s">>) =>
               result = Ok(Mul(value, Num(60)))
        /\ (from_unit = <<"k", "c", "a", "l">> /\ to_unit = <<"c", "a", "l">>) =>
               result = Ok(Mul(value, Num(1000)))

\* a call from kcal, absent from the table, to cal returned 1000 times the value
C15_Witness ==
    /\ pc = "returned"
    /\ from_unit = <<"k", "c", "a", "l">>
    /\ to_unit = <<"c", "a", "l">>
    /\ from_unit \notin TableSymbols
    /\ Splits(from_unit) # {}
    /\ result = Ok(Mul(value, Num(1000)))

\* a call from min, a table symbol that also reads m + in, to s returned
C15_WitnessDirect ==
    /\ pc = "returned"
    /\ from_unit = <<"m", "i", "n">>
    /\ to_unit = <<"s">>
    /\ Splits(from_unit) # {}
    /\ result = Ok(Mul(value, Num(60)))

(***************************************************************************)
(* C16                                                                     *)
(***************************************************************************)

\* the position of prefix p in the order in which the resolver tries prefixes
TryPosition(p) == CHOOSE i \in 1..Len(PREFIXES) : PREFIXES[i].prefix = p

\* prefix p is p followed by something
Extends(p, q) == p # q /\ StartsWith(p, q)

\* C16 as stated: every prefix that extends a shorter prefix is tried before
\* that shorter prefix: da before d, and mu before m.
C16_LongerPrefixFirst ==
    (pc = "returned") =>
        /\ \A i, j \in 1..Len(PREFIXES) :
               Extends(PREFIXES[i].prefix, PREFIXES[j].prefix) => i < j
        /\ TryPosition(<<"d", "a">>) < TryPosition(<<"d">>)
        /\ TryPosition(<<"m", "u">>) < TryPosition(<<"m">>)

\* C16: in the order in which the resolver tries prefixes, every prefix that
\* extends a shorter prefix is tried before it, except mu, which is tried
\* after m: da is tried before d and m before mu.  The exception changes no
\* result: no candidate absent from the table is split by both m and mu
\* (mucal resolves as mu + cal).
C16_PrefixOrder ==
    (pc = "returned") =>
        /\ \A i, j \in 1..Len(PREFIXES) :
               Extends(PREFIXES[i].prefix, PREFIXES[j].prefix) =>
                   \/ i < j
                   \/ PREFIXES[i].prefix = <<"m", "u">> /\ PREFIXES[j].prefix = <<"m">>
        /\ TryPosition(<<"d", "a">>) < TryPosition(<<"d">>)
        /\ TryPosition(<<"m">>) < TryPosition(<<"m", "u">>)
        /\ (IsCandidate(from_unit) /\ from_unit \notin TableSymbols) =>
               ~({TryPosition(<<"m">>), TryPosition(<<"m", "u">>)} \subseteq Splits(from_unit))
        /\ (from_unit = <<"m", "u", "c", "a", "l">> /\ to_unit = <<"c", "a", "l">>) =>
               result = Ok(Mul(value, Dec(1, -6)))

\* a call from mucal, for which m is tried before mu, to cal returned
C16_Witness ==
    /\ pc = "returned"
    /\ from_unit = <<"m", "u", "c", "a", "l">>
    /\ to_unit = <<"c", "a", "l">>
    /\ FirstPrefix(converter.unit_dict, from_unit, PREFIXES) = TryPosition(<<"m", "u">>)
    /\ TryPosition(<<"m">>) < TryPosition(<<"m", "u">>)
    /\ result = Ok(Mul(value, Dec(1, -6)))

(***************************************************************************)
(* C17                                                                     *)
(***************************************************************************)

\* the symbols the two if-chains of _convert_temperature have a branch for
TemperatureBranches ==
    {<<"K">>, <<"d", "e", "g", "C">>, <<"d", "e", "g", "F">>, <<"d", "e", "g", "R">>}

\* C17: no call of convert ends in UnknownTemperatureUnit: whenever convert
\* takes the affine temperature path, fromUnit and toUnit are each handled by
\* one of the four branches (K, degC, degF, degR) and a value is returned.
C17_UnknownTemperatureUnitUnreachable ==
    /\ result.kind # "UnknownTemperatureUnit"
    /\ back.kind # "UnknownTemperatureUnit"
    /\ (pc = "returned" /\ ~NonTemperaturePath) =>
           /\ from_unit \in TemperatureBranches
           /\ to_unit \in TemperatureBranches
           /\ result.kind = "ok"

\* a call from degR to degF took the temperature path and returned a value
C17_Witness ==
    /\ pc = "returned"
    /\ ~NonTemperaturePath
    /\ from_unit = <<"d", "e", "g", "R">>
    /\ to_unit = <<"d", "e", "g", "F">>
    /\ result.kind = "ok"

(***************************************************************************)
(* C18                                                                     *)
(***************************************************************************)

\* the base-unit candidates both arguments hand to the table lookups
Candidates ==
    {Candidate(tok) :
        tok \in {t \in {(TokensOf(from_unit) \o TokensOf(to_unit))[i] :
                           i \in 1..Len(TokensOf(from_unit) \o TokensOf(to_unit))} :
                    t \notin {<<>>, <<"1">>} /\ t \notin TEMPERATURE_UNITS}}

\* the position of the last prefix, in table order, that splits s; 0 if none
LastSplit(s) ==
    IF Splits(s) = {} THEN 0
    ELSE CHOOSE j \in Splits(s) : \A k \in Splits(s) : k <= j

\* C18: for every base-unit candidate that is not itself a table symbol at
\* most one prefix splits it into prefix + table symbol, so the first and the
\* last prefix that match are the same one, and the factor lookup and the
\* dimension lookup use the same split.
C18_PrefixResolutionUnambiguous ==
    (pc = "returned") =>
        /\ DOMAIN converter.unit_dict = DOMAIN converter.dimension_dict
        /\ \A s \in Candidates :
               (s \notin TableSymbols) =>
                   /\ Cardinality(Splits(s)) <= 1
                   /\ FirstPrefix(converter.unit_dict, s, PREFIXES) = LastSplit(s)
                   /\ FirstPrefix(converter.unit_dict, s, PREFIXES) =
                          FirstPrefix(converter.dimension_dict, s, PREFIXES)

\* a call from datm, which only d splits (da leaves tm), to atm returned
C18_Witness ==
    /\ pc = "returned"
    /\ from_unit = <<"d", "a", "t", "m">>
    /\ to_unit = <<"a", "t", "m">>
    /\ from_unit \in Candidates
    /\ from_unit \notin TableSymbols
    /\ Splits(from_unit) = {TryPosition(<<"d">>)}
    /\ result = Ok(Mul(value, Dec(1, -1)))

(***************************************************************************)
(* C19                                                                     *)
(***************************************************************************)

\* C19: the excluded combination kgmol stays unsupported: resolving the
\* token kgmol fails with UnknownUnit, so convert(1, "kgmol", "mol") returns
\* no value.
C19_KgmolUnsupported ==
    (pc = "returned" /\ from_unit = <<"k", "g", "m", "o", "l">>) =>
        /\ _parse_simple_unit_with_dims(converter, from_unit) = UnknownUnit(from_unit)
        /\ result = UnknownUnit(from_unit)

(***************************************************************************)
(* C20                                                                     *)
(***************************************************************************)

\* both lookups of the resolver answer for the candidate s
Accepted(s) ==
    /\ _get_unit_factor(converter, s).kind = "ok"
    /\ _get_unit_dimensions(converter, s).kind = "ok"

\* s is a symbol of the base or derived tables, bare or after one prefix
AtMostOnePrefix(s) ==
    \/ s \in DOMAIN OwnEntries
    \/ \E j \in 1..Len(PREFIXES) :
          /\ StartsWith(s, PREFIXES[j].prefix)
          /\ DropFirst(s, Len(PREFIXES[j].prefix)) \in DOMAIN OwnEntries

\* s is a prefix in front of a symbol of the prefixable list
GeneratedSymbol(s) ==
    \E j \in 1..Len(PREFIXES), i \in 1..Len(base_si_units) :
        s = PREFIXES[j].prefix \o base_si_units[i]

StackedExamples ==
    {<<"k", "m", "m">>, <<"k", "k", "g">>, <<"m", "k", "P", "a">>}

\* C20 as stated: every candidate the resolver accepts is a symbol of the
\* base or derived tables carrying at most one prefix, and kmm, kkg and mkPa
\* fail with UnknownUnit.
C20_StackedPrefixesFail ==
    (pc = "returned") =>
        /\ \A s \in Candidates : Accepted(s) => AtMostOnePrefix(s)
        /\ (from_unit \in StackedExamples) => result.kind = "UnknownUnit"

\* C20: every candidate the resolver accepts is a key of the unit table (a
\* base or derived symbol or a generated prefix + prefixable symbol) or one
\* prefix followed by such a key, and every such candidate is accepted; so
\* kmm (1 m), kkg (1000 kg) and mkPa (1 Pa) are accepted, while kkmm, which
\* is neither, fails with UnknownUnit.
C20_OnePrefixOnTableKey ==
    (pc = "returned") =>
        /\ (from_unit \in TableSymbols) =>
               (from_unit \in DOMAIN OwnEntries \/ GeneratedSymbol(from_unit))
        /\ \A s \in Candidates : Accepted(s) <=> ResolvesToTable(s)
        /\ (from_unit = <<"k", "m", "m">> /\ to_unit = <<"m">>) =>
               result = Ok(value)
        /\ (from_unit = <<"k", "k", "g">> /\ to_unit = <<"k", "g">>) =>
               result = Ok(Mul(value, Num(1000)))
        /\ (from_unit = <<"m", "k", "P", "a">> /\ to_unit = <<"P", "a">>) =>
               result = Ok(value)
        /\ (from_unit = <<"k", "k", "m", "m">>) =>
               result = UnknownUnit(from_unit)

\* a call from kmm, k in front of the generated key mm, to m returned
C20_Witness ==
    /\ pc = "returned"
    /\ from_unit = <<"k", "m", "m">>
    /\ to_unit = <<"m">>
    /\ from_unit \notin TableSymbols
    /\ ~AtMostOnePrefix(from_unit)
    /\ Accepted(from_unit)
    /\ result = Ok(value)

\* a call from kkmm failed with UnknownUnit
C20_WitnessRejected ==
    /\ pc = "returned"
    /\ from_unit = <<"k", "k", "m", "m">>
    /\ result = UnknownUnit(from_unit)

(***************************************************************************)
(* C21                                                                     *)
(***************************************************************************)

\* a non-empty expression one of whose tokens is empty
HasEmptyToken(expr) ==
    /\ expr # <<>>
    /\ \E i \in 1..Len(TokensOf(expr)) : TokensOf(expr)[i] = <<>>

\* the tokens that are not empty
NonEmpty(tokens) == SelectSeq(tokens, LAMBDA tok : tok # <<>>)

\* C21 as stated: a non-empty expression in which some token is empty (m/,
\* /s, kg..m) is rejected with an error and never parsed as if the empty
\* token were the dimensionless unit 1.
C21_EmptyTokenRejected ==
    (pc = "returned" /\ (HasEmptyToken(from_unit) \/ HasEmptyToken(to_unit))) =>
        result.kind # "ok"

\* C21: a non-empty expression in which some token is empty is not rejected
\* for it: every empty token counts as the dimensionless unit 1, so the
\* expression parses exactly when its other tokens resolve, to the factor
\* and dimensions those tokens give (m/ as m, /s as 1/s, kg..m as kg.m).
C21_EmptyTokenIsOne ==
    (pc = "returned" /\ NonTemperaturePath) =>
        /\ \A e \in {from_unit, to_unit} :
              HasEmptyToken(e) =>
                  LET num == NonEmpty(NumTokens(e))
                      den == NonEmpty(DenTokens(e))
                  IN  IF \A i \in 1..Len(num \o den) : TokenResolves((num \o den)[i])
                      THEN /\ Parsed(e).kind = "ok"
                           /\ Parsed(e).value.factor =
                                  Div(Product([i \in 1..Len(num) |-> TokenFactor(num[i])]),
                                      Product([i \in 1..Len(den) |-> TokenFactor(den[i])]))
                           /\ Vector(Parsed(e).value.dims) =
                                  [a \in Axes |-> ExponentSum(num, a) - ExponentSum(den, a)]
                      ELSE Parsed(e).kind = "UnknownUnit"
        /\ (from_unit = <<"m", "/">> /\ to_unit = <<"m">>) => result = Ok(value)
        /\ (from_unit = <<"/", "s">> /\ to_unit = <<"1", "/", "s">>) => result = Ok(value)
        /\ (from_unit = <<"k", "g", ".", ".", "m">> /\ to_unit = <<"k", "g", ".", "m">>) =>
               result = Ok(value)

\* a call from kg..m, whose middle token is empty, to kg.m returned the value
C21_Witness ==
    /\ pc = "returned"
    /\ from_unit = <<"k", "g", ".", ".", "m">>
    /\ to_unit = <<"k", "g", ".", "m">>
    /\ HasEmptyToken(from_unit)
    /\ result = Ok(value)

\* a call from xyz/, with an empty and an unknown token, failed
C21_WitnessUnknown ==
    /\ pc = "returned"
    /\ from_unit = <<"x", "y", "z", "/">>
    /\ HasEmptyToken(from_unit)
    /\ result = UnknownUnit(<<"x", "y", "z">>)

====
